---- MODULE Spec2Model ----
(***************************************************************************)
(* Model of parse-seer-us-population-estimates.py: the fixed-width line    *)
(* decoder parse_line, the chunking generator read_in_chunks and the       *)
(* cast / filter / spill / merge loop of process_seer_population_data.     *)
(*                                                                         *)
(* A text line is a sequence of one-character strings.  A decoded row is   *)
(* a record with the twelve keys of the dictionary parse_line returns;     *)
(* its Population is an exact Python int (see PyInt), its other numbers    *)
(* have at most four characters and are plain integers.                    *)
(***************************************************************************)
EXTENDS Integers, Sequences, FiniteSets, TLC

(***************************************************************************)
(* Bounds of the model.                                                    *)
(***************************************************************************)
\* longest input file, in lines
MaxLines == 2
\* largest chunk_size tried (0 .. MaxChunkSize)
MaxChunkSize == 2

(***************************************************************************)
(* Python str helpers: str.strip(), str.split(), slicing, int().           *)
(***************************************************************************)
\* characters str.strip() and str.split() treat as whitespace
Whitespace == {" ", "\t", "\n"}

Digits == {"0", "1", "2", "3", "4", "5", "6", "7", "8", "9"}

DigitVal(c) ==
  CASE c = "0" -> 0 [] c = "1" -> 1 [] c = "2" -> 2 [] c = "3" -> 3
    [] c = "4" -> 4 [] c = "5" -> 5 [] c = "6" -> 6 [] c = "7" -> 7
    [] c = "8" -> 8 [] c = "9" -> 9

Min(a, b) == IF a < b THEN a ELSE b

RECURSIVE lstrip(_)
lstrip(s) ==
  IF s # <<>> /\ Head(s) \in Whitespace THEN lstrip(Tail(s)) ELSE s

RECURSIVE rstrip(_)
rstrip(s) ==
  IF s # <<>> /\ s[Len(s)] \in Whitespace
    THEN rstrip(SubSeq(s, 1, Len(s) - 1))
    ELSE s

\* strip(" "): spaces only, the newline stays
RECURSIVE strip_spaces(_)
strip_spaces(s) ==
  IF s # <<>> /\ Head(s) = " " THEN strip_spaces(Tail(s))
  ELSE IF s # <<>> /\ s[Len(s)] = " " THEN strip_spaces(SubSeq(s, 1, Len(s) - 1))
  ELSE s

\* line.strip()
strip(s) == rstrip(lstrip(s))

\* the first whitespace-free run of s (s starts with a non-whitespace character)
RECURSIVE TokenLen(_)
TokenLen(s) ==
  IF s = <<>> \/ Head(s) \in Whitespace THEN 0 ELSE 1 + TokenLen(Tail(s))

\* line.split(): the maximal runs of non-whitespace characters, in order
RECURSIVE split(_)
split(s) ==
  LET t == lstrip(s)
  IN  IF t = <<>> THEN <<>>
      ELSE LET n == TokenLen(t)
           IN  <<SubSeq(t, 1, n)>> \o split(SubSeq(t, n + 1, Len(t)))

\* s[a:b] for 0 <= a <= b: never raises, truncates at the end of s
Slice(s, a, b) == SubSeq(s, a + 1, Min(b, Len(s)))

\* s[a:]
SliceFrom(s, a) == SubSeq(s, a + 1, Len(s))

(***************************************************************************)
(* Python integers.  A Python int is unbounded and the population field    *)
(* has no fixed width, so the value int() returns is kept exactly, as a    *)
(* sign and two limbs: the int is (-1)^neg * (hi * Limb + lo).             *)
(***************************************************************************)
Limb == 10^8

PyInt(neg, hi, lo) == [neg |-> neg /\ (hi # 0 \/ lo # 0), hi |-> hi, lo |-> lo]

\* the outcome of an expression that raised
Raised == [ok |-> FALSE, val |-> PyInt(FALSE, 0, 0)]

Value(v) == [ok |-> TRUE, val |-> v]

\* value of a digit string that may hold single underscores between digits;
\* Raised when int() rejects it
RECURSIVE DigitRun(_, _, _, _)
DigitRun(s, hi, lo, afterDigit) ==
  IF s = <<>> THEN (IF afterDigit THEN Value(PyInt(FALSE, hi, lo)) ELSE Raised)
  ELSE IF Head(s) \in Digits
         THEN LET n == 10 * lo + DigitVal(Head(s))
              IN  DigitRun(Tail(s), 10 * hi + n \div Limb, n % Limb, TRUE)
       ELSE IF Head(s) = "_" /\ afterDigit
         THEN DigitRun(Tail(s), hi, lo, FALSE)
       ELSE Raised

\* int(s) for a string without whitespace: an optional sign, then digits
int(s) ==
  IF s = <<>> THEN Raised
  ELSE IF Head(s) = "-"
         THEN LET r == DigitRun(Tail(s), 0, 0, FALSE)
              IN  IF r.ok THEN Value(PyInt(TRUE, r.val.hi, r.val.lo)) ELSE Raised
       ELSE IF Head(s) = "+" THEN DigitRun(Tail(s), 0, 0, FALSE)
       ELSE DigitRun(s, 0, 0, FALSE)

\* int(s[k]): indexing raises IndexError past the end of s
intAt(s, k) == IF k + 1 > Len(s) THEN Raised ELSE int(<<s[k + 1]>>)

\* the number a Python int of at most four characters is
Small(v) == IF v.neg THEN 0 - v.lo ELSE v.lo

(***************************************************************************)
(* parse_line                                                              *)
(***************************************************************************)
\* the value parse_line returns for a line it does not decode
None == [none |-> TRUE]

\* year_filter: None, an int, or a set of ints
NoYearFilter == [kind |-> "none"]

IntYearFilter(y) == [kind |-> "int", year |-> y]

SetYearFilter(ys) == [kind |-> "set", years |-> ys]

\* lines 65-69: whether the year filter rejects the record
YearFilteredOut(year, year_filter) ==
  /\ year_filter.kind # "none"
  /\ \/ year_filter.kind = "int" /\ year # year_filter.year
     \/ year_filter.kind = "set" /\ year \notin year_filter.years

\* the pre-1990 vocabulary applied up to and including 1990
race_desc_through_1990(year, race) ==
  IF year <= 1990
    THEN CASE race = 1 -> "White" [] race = 2 -> "Black" [] race = 3 -> "Other"
           [] OTHER -> "Unknown"
    ELSE CASE race = 1 -> "White" [] race = 2 -> "Black"
           [] race = 3 -> "American Indian/Alaska Native"
           [] race = 4 -> "Asian or Pacific Islander"
           [] OTHER -> "Unknown"

\* lines 83-91
race_desc(year, race) ==
  IF year < 1990
    THEN CASE race = 1 -> "White" [] race = 2 -> "Black" [] race = 3 -> "Other"
           [] OTHER -> "Unknown"
    ELSE CASE race = 1 -> "White" [] race = 2 -> "Black"
           [] race = 3 -> "American Indian/Alaska Native"
           [] race = 4 -> "Asian or Pacific Islander"
           [] OTHER -> "Unknown"

\* lines 94-97
origin_desc(year, origin) ==
  IF year >= 1990
    THEN CASE origin = 0 -> "Non-Hispanic" [] origin = 1 -> "Hispanic"
           [] origin = 9 -> "Not Applicable" [] OTHER -> "Unknown"
    ELSE "Not Applicable"

\* line 100
sex_desc(sex) ==
  CASE sex = 1 -> "Male" [] sex = 2 -> "Female" [] OTHER -> "Unknown"

parse_line(line, year_filter) ==
  LET parts == split(line)
  IN  IF Len(parts) # 2 THEN None
      ELSE
        LET first_part == parts[1]
            second_part == parts[2]
            year_int == int(Slice(first_part, 0, 4))
            year == Small(year_int.val)
        IN  IF ~year_int.ok THEN None
            ELSE IF YearFilteredOut(year, year_filter) THEN None
            ELSE
              LET race == intAt(second_part, 0)
                  origin == intAt(second_part, 1)
                  sex == intAt(second_part, 2)
                  age == int(Slice(second_part, 3, 5))
                  population == int(SliceFrom(second_part, 5))
              IN  IF ~(race.ok /\ origin.ok /\ sex.ok /\ age.ok /\ population.ok)
                    THEN None
                    ELSE [Year |-> year,
                          State |-> Slice(first_part, 4, 6),
                          State_FIPS |-> Slice(first_part, 6, 8),
                          County_FIPS |-> Slice(first_part, 8, 11),
                          Race_Code |-> Small(race.val),
                          Race |-> race_desc(year, Small(race.val)),
                          Origin_Code |-> Small(origin.val),
                          Origin |-> origin_desc(year, Small(origin.val)),
                          Sex_Code |-> Small(sex.val),
                          Sex |-> sex_desc(Small(sex.val)),
                          Age |-> Small(age.val),
                          Population |-> population.val]

(***************************************************************************)
(* Input lines.  Each is the text of one line of the input file.           *)
(***************************************************************************)
tok_2011 == <<"2", "0", "1", "1", "U", "S", "0", "1", "0", "0", "1">>

tok_1985 == <<"1", "9", "8", "5", "U", "S", "0", "1", "0", "0", "1">>

\* "2011US01001 102500000123\n": White, Non-Hispanic, Female, 50, population 123
L_match == tok_2011 \o <<" ", "1", "0", "2", "5", "0", "0", "0", "0", "0", "1", "2", "3", "\n">>

\* "2011US01001 10260456": White, Non-Hispanic, Female, 60, population 456
L_match2 == tok_2011 \o <<" ", "1", "0", "2", "6", "0", "4", "5", "6">>

\* "2011US01001 21150789\n": Black, Hispanic, Male, 50, population 789
L_nomatch == tok_2011 \o <<" ", "2", "1", "1", "5", "0", "7", "8", "9", "\n">>

\* "1985US01001 3027005\n": Other, Female, 70, population 5, year 1985
L_1985 == tok_1985 \o <<" ", "3", "0", "2", "7", "0", "0", "5", "\n">>

\* " \n": a blank line
L_blank == <<" ", "\n">>

\* "1985US01001 1XX5000005\n": non-numeric origin and sex
L_bad == tok_1985 \o <<" ", "1", "X", "X", "5", "0", "0", "0", "0", "0", "5", "\n">>

\* "2011US01001 211503000000000\n": population 3000000000
L_over == tok_2011 \o <<" ", "2", "1", "1", "5", "0", "3", "0", "0", "0", "0", "0", "0", "0", "0", "0", "\n">>

LineSet == {L_match, L_match2, L_nomatch, L_1985, L_blank, L_bad, L_over}

RECURSIVE SeqsUpTo(_, _)
SeqsUpTo(S, n) ==
  IF n = 0 THEN {<<>>}
  ELSE LET shorter == SeqsUpTo(S, n - 1)
       IN  shorter \cup {Append(f, x) : f \in {g \in shorter : Len(g) = n - 1}, x \in S}

Files == SeqsUpTo(LineSet, MaxLines)

YearFilters == {NoYearFilter, IntYearFilter(2011), SetYearFilter({1985, 2011})}

(***************************************************************************)
(* Inputs of the decoder: one-line files over a wider set of lines, built  *)
(* from first tokens, second tokens and the lines that are not two tokens. *)
(***************************************************************************)
FirstTokens ==
  { tok_2011, tok_1985,
    <<"1", "9", "9", "0", "U", "S", "0", "1", "0", "0", "1">>,
    <<"1", "9", "8", "9", "U", "S", "0", "1", "0", "0", "1">>,
    <<"-", "1", "9", "9", "U", "S", "0", "1", "0", "0", "1">>,
    <<"2", "0", "X", "1", "U", "S", "0", "1", "0", "0", "1">>,
    <<"2", "0", "1", "1">>,
    <<"2", "0", "1">> }

AgeTexts == {<<"5", "0">>, <<"0", "7">>, <<"9", "9">>, <<"-", "5">>, <<"X", "5">>}

PopulationTexts ==
  { <<"1", "2", "3">>, <<>>, <<"-", "7">>, <<"1", "_", "0">>,
    <<"2", "1", "4", "7", "4", "8", "3", "6", "4", "7">>,
    <<"2", "1", "4", "7", "4", "8", "3", "6", "4", "8">>,
    <<"3", "0", "0", "0", "0", "0", "0", "0", "0", "0">> }

SecondTokens ==
  { <<r, o, x, "5", "0", "1", "2", "3">> :
      r \in {"0", "1", "2", "3", "4", "5"},
      o \in {"0", "1", "2", "9", "X"},
      x \in {"0", "1", "2", "3"} }
  \cup { <<"1", "0", "2">> \o a \o n : a \in AgeTexts, n \in PopulationTexts }
  \cup { <<"1">>, <<"1", "0", "2", "5">> }

ParseLines ==
  { t1 \o <<" ">> \o t2 \o <<"\n">> : t1 \in FirstTokens, t2 \in SecondTokens }
  \cup { <<"\n">>, tok_2011 \o <<"\n">>,
         tok_2011 \o <<" ", "1", "0", "2", "5", "0", "1", " ", "7", "\n">> }

(***************************************************************************)
(* process_seer_population_data: schema, cast, filter                      *)
(***************************************************************************)
\* lines 189-202: the column names of the schema, in declared order
SchemaColumns ==
  <<"Year", "State", "State_FIPS", "County_FIPS", "Race_Code", "Race",
    "Origin_Code", "Origin", "Sex_Code", "Sex", "Age", "Population">>

\* a data frame: its columns and its rows in order
DataFrame(rows) == [columns |-> SchemaColumns, rows |-> rows]

FitsInt16(v) == v >= -32768 /\ v <= 32767

FitsUInt8(v) == v >= 0 /\ v <= 255

\* Int32 holds -2147483648 .. 2147483647
FitsInt32(v) ==
  \/ v.hi < 21
  \/ v.hi = 21 /\ v.lo <= (IF v.neg THEN 47483648 ELSE 47483647)

\* lines 221-223: the strict cast of one row raises when a value is outside
\* the column's type
CastOk(row) ==
  /\ FitsInt16(row.Year)
  /\ FitsUInt8(row.Race_Code)
  /\ FitsUInt8(row.Origin_Code)
  /\ FitsUInt8(row.Sex_Code)
  /\ FitsUInt8(row.Age)
  /\ FitsInt32(row.Population)

\* filter_expr: None, or the expression of lines 315-321
NoFilterExpr == "None"

MainFilterExpr == "white_nonhispanic_female_50to75"

FilterExprs == {NoFilterExpr, MainFilterExpr}

\* lines 226-227 with the expression of lines 315-321
Matches(expr, row) ==
  \/ expr = NoFilterExpr
  \/ /\ row.Race_Code = 1
     /\ row.Origin_Code = 0
     /\ row.Sex_Code = 2
     /\ row.Age >= 50
     /\ row.Age <= 75

\* chunk_df.filter(filter_expr): the matching rows, in order
FilterRows(rows, expr) == SelectSeq(rows, LAMBDA r : Matches(expr, r))

\* every chunk written to one fixed artifact name
chunk_path_fixed(k) == 0

\* line 235: the artifact of chunk i is named by i
chunk_path(k) == k

\* dfs.insert(0, x)
prepend(list, x) == <<x>> \o list

\* line 238 / 240: dfs.append(x)
append(list, x) == Append(list, x)

PathHandle(p) == [kind |-> "path", path |-> p]

FrameHandle(df) == [kind |-> "frame", df |-> df]

\* the rows of an artifact left in the directory by an earlier run
StaleRow ==
  [Year |-> 1969, State |-> <<"Z", "Z">>, State_FIPS |-> <<"9", "9">>,
   County_FIPS |-> <<"9", "9", "9">>, Race_Code |-> 1, Race |-> "White",
   Origin_Code |-> 9, Origin |-> "Not Applicable", Sex_Code |-> 1,
   Sex |-> "Male", Age |-> 1, Population |-> PyInt(FALSE, 0, 1)]

StaleFrame == DataFrame(<<StaleRow>>)

NoFiles == [p \in {} |-> StaleFrame]

\* the spill directory before the run: empty, or holding filtered_chunk_1.parquet
InitialDisks == {NoFiles, [p \in {1} |-> StaleFrame]}

\* chunk_df.write_parquet(chunk_path): creates or overwrites the file
WriteFile(d, p, df) == [q \in DOMAIN d \cup {p} |-> IF q = p THEN df ELSE d[q]]

\* only the first path of dfs is unlinked
UnlinkFirst(d, handles) ==
  [q \in DOMAIN d \ {handles[1].path} |-> d[q]]

\* lines 252-255: unlink every path of dfs that exists
Unlink(d, handles) ==
  LET gone == {handles[k].path : k \in DOMAIN handles}
  IN  [q \in DOMAIN d \ gone |-> d[q]]

\* pl.concat: the rows of the frames, in list order
RECURSIVE ConcatRows(_)
ConcatRows(frames) ==
  IF frames = <<>> THEN <<>>
  ELSE Head(frames).rows \o ConcatRows(Tail(frames))

(***************************************************************************)
(* State                                                                   *)
(***************************************************************************)
VARIABLES
  file,                \* the lines of the input file
  year_filter,         \* argument
  chunk_size,          \* argument
  filter_expr,         \* argument
  output_parquet_path, \* argument: TRUE when a spill directory is given
  output_csv_path,     \* argument: TRUE when a CSV path is given
  pos,                 \* read_in_chunks: index of the next line of the file
  lines,               \* read_in_chunks: the buffer of decoded rows
  skipped_count,       \* read_in_chunks
  processed_count,     \* read_in_chunks
  printed,             \* the summary lines read_in_chunks has printed
  i,                   \* process_seer_population_data: enumerate index
  dfs,                 \* process_seer_population_data: handles kept for the merge
  disk,                \* the spill directory: artifact name -> frame
  csv,                 \* the CSV export: <<>> or <<frame>>
  chunk_log,           \* history: the filtered frame of every chunk so far
  final_df,            \* the returned frame
  pc                   \* control: read, yield152, yield157, merge, done, error

vars ==
  <<file, year_filter, chunk_size, filter_expr, output_parquet_path,
    output_csv_path, pos, lines, skipped_count, processed_count, printed,
    i, dfs, disk, csv, chunk_log, final_df, pc>>

args == <<file, year_filter, chunk_size, filter_expr, output_parquet_path, output_csv_path>>

Start ==
  /\ pos = 1
  /\ lines = <<>>
  /\ skipped_count = 0
  /\ processed_count = 0
  /\ printed = <<>>
  /\ i = 0
  /\ dfs = <<>>
  /\ csv = <<>>
  /\ chunk_log = <<>>
  /\ final_df = DataFrame(<<>>)
  /\ pc = "read"

Init ==
  /\ file \in Files
  /\ year_filter \in YearFilters
  /\ chunk_size \in 0..MaxChunkSize
  /\ filter_expr \in FilterExprs
  /\ output_parquet_path \in BOOLEAN
  /\ output_csv_path \in BOOLEAN
  /\ disk \in (IF output_parquet_path THEN InitialDisks ELSE {NoFiles})
  /\ Start

(***************************************************************************)
(* read_in_chunks                                                          *)
(***************************************************************************)
\* lines 151 and 156: the printed counts
Summary(label, processed, skipped) ==
  [label |-> label, processed |-> processed, skipped |-> skipped]

\* lines 140-153: one iteration of the for loop, up to the yield if it is taken
ReadLine ==
  /\ pc = "read"
  /\ pos <= Len(file)
  /\ LET line == strip(file[pos])
         parsed == parse_line(line, year_filter)
     IN  /\ pos' = pos + 1
         /\ IF line = <<>>
              THEN UNCHANGED <<lines, processed_count, skipped_count>>
              ELSE IF parsed # None
                THEN /\ lines' = Append(lines, parsed)
                     /\ processed_count' = processed_count + 1
                     /\ UNCHANGED skipped_count
                ELSE /\ skipped_count' = skipped_count + 1
                     /\ UNCHANGED <<lines, processed_count>>
         /\ IF Len(lines') >= chunk_size
              THEN /\ printed' = Append(printed, Summary("Processed", processed_count', skipped_count'))
                   /\ pc' = "yield152"
              ELSE UNCHANGED <<printed, pc>>
  /\ UNCHANGED <<args, i, dfs, disk, csv, chunk_log, final_df>>

\* lines 155-157: the end of the file
EndOfFile ==
  /\ pc = "read"
  /\ pos > Len(file)
  /\ IF lines # <<>>
       THEN /\ printed' = Append(printed, Summary("Final stats", processed_count, skipped_count))
            /\ pc' = "yield157"
       ELSE /\ pc' = "merge"
            /\ UNCHANGED printed
  /\ UNCHANGED <<args, pos, lines, skipped_count, processed_count,
                 i, dfs, disk, csv, chunk_log, final_df>>

(***************************************************************************)
(* process_seer_population_data                                            *)
(***************************************************************************)
\* the generator resumes after a yield: line 153, or the end of the function
Resume ==
  IF pc = "yield152"
    THEN lines' = <<>> /\ pc' = "read"
    ELSE lines' = lines /\ pc' = "merge"

\* lines 216-240: the loop body for the chunk the generator has yielded
ProcessChunk ==
  /\ pc \in {"yield152", "yield157"}
  /\ LET chunk == lines
         chunk_df == DataFrame(FilterRows(chunk, filter_expr))
     IN  IF chunk = <<>>
           THEN /\ Resume
                /\ i' = i + 1
                /\ chunk_log' = Append(chunk_log, DataFrame(<<>>))
                /\ UNCHANGED <<dfs, disk>>
         ELSE IF \E k \in DOMAIN chunk : ~CastOk(chunk[k])
           THEN /\ pc' = "error"
                /\ UNCHANGED <<lines, i, dfs, disk, chunk_log>>
         ELSE /\ Resume
              /\ i' = i + 1
              /\ chunk_log' = Append(chunk_log, chunk_df)
              /\ IF chunk_df.rows = <<>>
                   THEN UNCHANGED <<dfs, disk>>
                 ELSE IF output_parquet_path
                   THEN /\ disk' = WriteFile(disk, chunk_path(i), chunk_df)
                        /\ dfs' = append(dfs, PathHandle(chunk_path(i)))
                   ELSE /\ dfs' = append(dfs, FrameHandle(chunk_df))
                        /\ UNCHANGED disk
  /\ UNCHANGED <<args, pos, skipped_count, processed_count, printed, csv, final_df>>

\* line 247
AllPaths(handles) == \A k \in DOMAIN handles : handles[k].kind = "path"

\* line 249: the frames read back from the artifacts, in list order
ReadAll(d, handles) == [k \in DOMAIN handles |-> d[handles[k].path]]

\* line 258: the frames kept in memory, in list order
Frames(handles) == [k \in DOMAIN handles |-> handles[k].df]

\* lines 261-263
WriteCsv(df) ==
  IF output_csv_path /\ df.rows # <<>> THEN csv' = <<df>> ELSE UNCHANGED csv

\* lines 243-265
Merge ==
  /\ pc = "merge"
  /\ IF dfs = <<>>
       THEN /\ final_df' = DataFrame(<<>>)
            /\ pc' = "done"
            /\ UNCHANGED <<disk, csv>>
     ELSE IF output_parquet_path /\ AllPaths(dfs)
       THEN IF \E k \in DOMAIN dfs : dfs[k].path \notin DOMAIN disk
              THEN /\ pc' = "error"
                   /\ UNCHANGED <<final_df, disk, csv>>
              ELSE /\ final_df' = DataFrame(ConcatRows(ReadAll(disk, dfs)))
                   /\ disk' = Unlink(disk, dfs)
                   /\ WriteCsv(final_df')
                   /\ pc' = "done"
     ELSE /\ final_df' = DataFrame(ConcatRows(Frames(dfs)))
          /\ WriteCsv(final_df')
          /\ pc' = "done"
          /\ UNCHANGED disk
  /\ UNCHANGED <<args, pos, lines, skipped_count, processed_count, printed,
                 i, dfs, chunk_log>>

Next == ReadLine \/ EndOfFile \/ ProcessChunk \/ Merge

Spec == Init /\ [][Next]_vars

\* the decoder on its own: a one-line file, chunk_size 1, rows kept in memory
InitParse ==
  /\ file \in {<<l>> : l \in ParseLines}
  /\ year_filter \in YearFilters
  /\ chunk_size = 1
  /\ filter_expr \in FilterExprs
  /\ output_parquet_path = FALSE
  /\ output_csv_path = FALSE
  /\ disk = NoFiles
  /\ Start

SpecParse == InitParse /\ [][Next]_vars

(***************************************************************************)
(* Properties                                                              *)
(***************************************************************************)
\* a line that is empty after trimming
IsBlank(l) == \A k \in DOMAIN l : l[k] \in Whitespace

NonBlankCount(f, n) == Cardinality({k \in 1..n : ~IsBlank(f[k])})

\* the rows of f that decode, pass the year filter and match the predicate,
\* in file order
RECURSIVE ExpectedRows(_, _, _)
ExpectedRows(f, yf, expr) ==
  IF f = <<>> THEN <<>>
  ELSE LET parsed == parse_line(strip(Head(f)), yf)
           rest == ExpectedRows(Tail(f), yf, expr)
       IN  IF IsBlank(Head(f)) \/ parsed = None THEN rest
           ELSE IF Matches(expr, parsed) THEN <<parsed>> \o rest
           ELSE rest

\* the chunks so far whose filtered frame has at least one row
KeptChunks == {k \in DOMAIN chunk_log : chunk_log[k].rows # <<>>}

\* C1: Conservation.  After every line read, processed_count + skipped_count
\* is the number of non-blank lines among the lines read so far: a non-blank
\* line adds one to exactly one counter, a blank line to neither; so the sum
\* is the number of non-blank lines of the file once the stream is consumed.
C1_Conservation ==
  processed_count + skipped_count = NonBlankCount(file, pos - 1)

C1_Witness ==
  /\ pc = "merge"
  /\ Len(file) = 2
  /\ \E k \in DOMAIN file : IsBlank(file[k])
  /\ processed_count = 1

\* C2: Order preservation.  For chunk_size >= 1, in spill mode and in memory,
\* the rows of the returned frame are exactly the decoded rows that pass the
\* year filter and the predicate, in file order.
C2_OrderPreserved ==
  (pc = "done" /\ chunk_size >= 1)
    => final_df.rows = ExpectedRows(file, year_filter, filter_expr)

C2_Witness ==
  /\ pc = "done"
  /\ chunk_size = 1
  /\ output_parquet_path
  /\ Len(chunk_log) = 2
  /\ Len(final_df.rows) = 2
  /\ final_df.rows[1] # final_df.rows[2]

\* C5: Cleanup.  When a spill-mode run has returned, no artifact the run wrote
\* (the artifact of a chunk with at least one filtered row, named by the
\* chunk's index) is left in the spill directory.
C5_Cleanup ==
  (pc = "done" /\ output_parquet_path)
    => \A k \in KeptChunks : (k - 1) \notin DOMAIN disk

C5_Witness ==
  /\ pc = "done"
  /\ output_parquet_path
  /\ Cardinality(KeptChunks) = 2
  /\ Len(chunk_log) = 2

\* C10: Spill correspondence.  In spill mode, when the stream has ended and
\* the merge has not started, every chunk with at least one filtered row has
\* its own artifact, named by the chunk's index and holding its frame, every
\* chunk with no filtered row wrote none, and the handles kept for the merge
\* are the artifacts of the kept chunks, one each, in chunk order.
C10_SpillCorrespondence ==
  (pc = "merge" /\ output_parquet_path)
    => /\ \A k \in DOMAIN chunk_log :
            IF k \in KeptChunks
              THEN (k - 1) \in DOMAIN disk /\ disk[k - 1] = chunk_log[k]
              ELSE (k - 1) \notin DOMAIN disk \/ disk[k - 1] = StaleFrame
       /\ Len(dfs) = Cardinality(KeptChunks)
       /\ \A j \in DOMAIN dfs :
            /\ dfs[j].kind = "path"
            /\ (dfs[j].path + 1) \in KeptChunks
            /\ \A m \in DOMAIN dfs : m < j => dfs[m].path < dfs[j].path

C10_Witness ==
  /\ pc = "merge"
  /\ output_parquet_path
  /\ Len(chunk_log) = 2
  /\ Cardinality(KeptChunks) = 1
  /\ Len(dfs) = 1

\* the labels the vocabularies give a decoded row
LabelsFollowVocabulary(r) ==
  /\ r.Year < 1990 =>
       /\ r.Race_Code = 1 => r.Race = "White"
       /\ r.Race_Code = 2 => r.Race = "Black"
       /\ r.Race_Code = 3 => r.Race = "Other"
       /\ r.Race_Code \notin {1, 2, 3} => r.Race = "Unknown"
       /\ r.Origin = "Not Applicable"
  /\ r.Year >= 1990 =>
       /\ r.Race_Code = 1 => r.Race = "White"
       /\ r.Race_Code = 2 => r.Race = "Black"
       /\ r.Race_Code = 3 => r.Race = "American Indian/Alaska Native"
       /\ r.Race_Code = 4 => r.Race = "Asian or Pacific Islander"
       /\ r.Race_Code \notin {1, 2, 3, 4} => r.Race = "Unknown"
       /\ r.Origin_Code = 0 => r.Origin = "Non-Hispanic"
       /\ r.Origin_Code = 1 => r.Origin = "Hispanic"
       /\ r.Origin_Code = 9 => r.Origin = "Not Applicable"
  /\ r.Sex_Code = 1 => r.Sex = "Male"
  /\ r.Sex_Code = 2 => r.Sex = "Female"
  /\ r.Sex_Code \notin {1, 2} => r.Sex = "Unknown"

\* C7: Vocabularies.  Every row parse_line decodes carries the Race, Origin
\* and Sex labels of the year-dependent vocabularies: White/Black/Other before
\* 1990, White/Black/American Indian/Alaska Native/Asian or Pacific Islander
\* from 1990, "Unknown" for another race code; Origin "Not Applicable" before
\* 1990 whatever the digit, Non-Hispanic/Hispanic/Not Applicable for 0/1/9
\* from 1990; Male/Female for 1/2 and "Unknown" otherwise.
C7_Vocabulary ==
  \A k \in DOMAIN lines : LabelsFollowVocabulary(lines[k])

C7_Witness ==
  \E k \in DOMAIN lines :
    /\ lines[k].Year = 1990
    /\ lines[k].Race_Code = 3
    /\ lines[k].Race = "American Indian/Alaska Native"
    /\ lines[k].Origin_Code = 9
    /\ lines[k].Sex = "Unknown"

\* C3: End-of-run counts.  When the stream has ended, a summary carrying the
\* final values of processed_count and skipped_count has been printed (stated
\* here for a file with a non-blank line and chunk_size >= 1).
C3_FinalCountsReported ==
  (pc = "merge" /\ processed_count + skipped_count > 0 /\ chunk_size >= 1)
    => \E k \in DOMAIN printed :
         /\ printed[k].processed = processed_count
         /\ printed[k].skipped = skipped_count

\* a non-blank line the decoder is to skip: not two tokens, a numeric field
\* int() rejects, or a field whose slice reaches past the end of its token
MustBeSkipped(l) ==
  LET parts == split(strip(l))
  IN  /\ ~IsBlank(l)
      /\ \/ Len(parts) # 2
         \/ Len(parts[1]) < 11
         \/ Len(parts[2]) < 6
         \/ ~int(Slice(parts[1], 0, 4)).ok
         \/ ~intAt(parts[2], 0).ok
         \/ ~intAt(parts[2], 1).ok
         \/ ~intAt(parts[2], 2).ok
         \/ ~int(Slice(parts[2], 3, 5)).ok
         \/ ~int(SliceFrom(parts[2], 5)).ok

\* C4: Bad lines are skipped.  A non-blank line that is not two tokens, has a
\* non-numeric field or a field whose slice lies outside its token is counted
\* in skipped_count and not in processed_count, and adds no row.
C4_BadLineSkipped ==
  (Len(file) = 1 /\ pos = 2 /\ MustBeSkipped(file[1]))
    => processed_count = 0 /\ skipped_count = 1

\* C8: Batches.  For any chunk_size, every batch read_in_chunks yields is
\* non-empty and holds at most chunk_size rows.
C8_BatchesNonEmptyBounded ==
  pc \in {"yield152", "yield157"}
    => lines # <<>> /\ Len(lines) <= chunk_size

\* the values of a row are inside the declared column types
WithinDeclaredTypes(r) ==
  /\ r.Year >= -32768 /\ r.Year <= 32767
  /\ r.Race_Code \in 0..255
  /\ r.Origin_Code \in 0..255
  /\ r.Sex_Code \in 0..255
  /\ r.Age \in 0..99
  /\ FitsInt32(r.Population)

\* C9: Casting is total.  Every row parse_line returns has its values inside
\* the declared column types, and the cast of a yielded batch never fails.
C9_CastTotal ==
  /\ pc # "error"
  /\ \A k \in DOMAIN lines : WithinDeclaredTypes(lines[k])

\* C6: Empty result.  When no row survives the year filter and the predicate,
\* the run raises no error, writes no artifact, and returns a frame with the
\* twelve columns of the schema and no row (stated here for chunk_size >= 1).
C6_EmptyResult ==
  (chunk_size >= 1 /\ ExpectedRows(file, year_filter, filter_expr) = <<>>)
    => /\ pc # "error"
       /\ KeptChunks = {}
       /\ disk \in InitialDisks
       /\ pc = "done" => final_df = [columns |-> SchemaColumns, rows |-> <<>>]

====
